---- MODULE Spec2Model ----
(***************************************************************************)
(* BrainDock license-state engine (licensing/license_manager.py) and       *)
(* blocklist settings (screen/blocklist.py).                               *)
(*                                                                         *)
(* A Python string is a sequence of character atoms: " " is whitespace,    *)
(* "a" and "b" are lower-case letters with upper-case forms "A" and "B",   *)
(* every other atom is a character (or an opaque run of characters) that   *)
(* str.strip and str.upper leave alone.                                    *)
(* A JSON value is a tagged record: JNull, JBool(b), JStr(s), JInt(n),     *)
(* JList(l), JObj(members) with members a sequence of <<name, value>>,     *)
(* each name a string like any other: a sequence of atoms.                 *)
(* The in-memory record self.data is a function from field names to JSON   *)
(* values (a dict; dict equality ignores insertion order).                 *)
(* The license file is its text: a sequence of members <<name, tokens>>    *)
(* in the order json.dump wrote them, or missing, truncated, unreadable,   *)
(* not a JSON object, not text, or a text followed by the end of another.  *)
(* Five specifications share the operations: Spec (saves that fail),       *)
(* SpecKeys (key-list files), SpecStore (the file changed between two      *)
(* processes), SpecCache (the key-list file replaced while engines run)    *)
(* and SpecThreads (two threads inside _save_data). SpecAccessor is the    *)
(* module-level accessor get_license_manager called by two threads, and    *)
(* SpecBlocklist the blocklist settings of screen/blocklist.py.            *)
(***************************************************************************)
EXTENDS Naturals, Sequences, FiniteSets, TLC

VARIABLES
    alive,      \* TRUE while a LicenseManager object exists in the process
    data,       \* self.data
    cache,      \* self._license_keys_cache
    file,       \* content of self.license_file on disk
    keysFile,   \* content of self.license_keys_file on disk
    saved,      \* history: the text the last successful _save_data wrote
    edits,      \* history: number of external edits of the file since then
    op,         \* history: the last operation, its arguments and its result
    threads,    \* the position and the locals of each thread inside a call
    instance,   \* the module global _license_manager_instance
    objects,    \* the LicenseManager objects get_license_manager has constructed
    calls,      \* the position of each thread inside get_license_manager
    resets,     \* history: number of reset_license_manager calls so far
    blocklist,  \* BlocklistManager._blocklist
    settings    \* content of BlocklistManager.settings_path on disk

vars == <<alive, data, cache, file, keysFile, saved, edits, op, threads,
          instance, objects, calls, resets, blocklist, settings>>

----------------------------------------------------------------------------
(* Bounds of the model. *)

\* longest license-key string passed to validate/activate
MaxKeyLen == 2
\* number of distinct datetime.now() readings
MaxTime == 2
\* external edits applied to the license file between two loads
MaxEdits == 1
\* LicenseManager objects the accessor constructs, reset_license_manager calls
MaxObjects == 3
MaxResets == 1
\* entries of Blocklist.custom_patterns
MaxPatterns == 3

----------------------------------------------------------------------------
(* JSON values *)

JNull == [t |-> "null"]
JBool(b) == [t |-> "bool", b |-> b]
JStr(s) == [t |-> "str", s |-> s]
JInt(n) == [t |-> "int", n |-> n]
JList(l) == [t |-> "list", l |-> l]
JObj(members) == [t |-> "obj", members |-> members]

\* Python truth value of a parsed JSON value (used by `not stored_checksum`)
Truthy(v) ==
    CASE v.t = "null" -> FALSE
      [] v.t = "bool" -> v.b
      [] v.t = "str" -> v.s # <<>>
      [] v.t = "int" -> v.n # 0
      [] v.t = "list" -> v.l # <<>>
      [] v.t = "obj" -> v.members # <<>>

\* dict.get(key) with the default None
Get(d, k) == IF k \in DOMAIN d THEN d[k] ELSE JNull

\* d[key] = value
Put(d, k, v) == [x \in (DOMAIN d) \cup {k} |-> IF x = k THEN v ELSE d[x]]

----------------------------------------------------------------------------
(* str.strip() and str.upper() *)

IsSpace(c) == c = " "

UpperChar(c) ==
    CASE c = "a" -> "A"
      [] c = "b" -> "B"
      [] OTHER -> c

\* an upper() that leaves every letter as it is
UpperKeepsCase(s) == s

Upper(s) == [i \in 1..Len(s) |-> UpperChar(s[i])]

RECURSIVE LStrip(_)
LStrip(s) ==
    IF s # <<>> /\ IsSpace(Head(s)) THEN LStrip(Tail(s)) ELSE s

RECURSIVE RStrip(_)
RStrip(s) ==
    IF s # <<>> /\ IsSpace(s[Len(s)]) THEN RStrip(SubSeq(s, 1, Len(s) - 1)) ELSE s

Strip(s) == RStrip(LStrip(s))

\* a normalization that strips and keeps the case
NormalizeStripOnly(s) == Strip(s)

\* key.strip().upper()
Normalize(s) == Upper(Strip(s))

----------------------------------------------------------------------------
(* json.dumps / json.dump / json.load of the license record *)

\* the JSON text of a scalar value, as a sequence of tokens
JsonText(v) ==
    CASE v.t = "null" -> <<"null">>
      [] v.t = "bool" -> IF v.b THEN <<"true">> ELSE <<"false">>
      [] v.t = "str" -> <<"\"">> \o v.s \o <<"\"">>
      [] v.t = "int" -> IF v.n = 0 THEN <<"0">> ELSE <<"1">>

\* the value a token sequence parses to; JNull with ok = FALSE: JSONDecodeError
JsonParse(tk) ==
    CASE tk = <<"null">> -> [ok |-> TRUE, v |-> JNull]
      [] tk = <<"true">> -> [ok |-> TRUE, v |-> JBool(TRUE)]
      [] tk = <<"false">> -> [ok |-> TRUE, v |-> JBool(FALSE)]
      [] tk = <<"0">> -> [ok |-> TRUE, v |-> JInt(0)]
      [] tk = <<"1">> -> [ok |-> TRUE, v |-> JInt(1)]
      [] Len(tk) >= 2 /\ tk[1] = "\"" /\ tk[Len(tk)] = "\"" ->
            [ok |-> TRUE, v |-> JStr(SubSeq(tk, 2, Len(tk) - 1))]
      [] OTHER -> [ok |-> FALSE, v |-> JNull]

\* lexicographic order of the field names the model uses (sort_keys=True)
SortedNames ==
    <<"activated_at", "checksum", "email", "extra", "license_key", "license_type",
      "licensed", "stripe_payment_intent", "stripe_session_id">>

\* insertion order of the dict literals in _default_data and the activations
LiteralOrder ==
    <<"licensed", "license_type", "stripe_session_id", "stripe_payment_intent",
      "license_key", "activated_at", "email", "checksum", "extra">>

\* the members of dict d, in the given order of names
Members(d, order) ==
    LET present == SelectSeq(order, LAMBDA k : k \in DOMAIN d)
    IN  [i \in 1..Len(present) |-> <<present[i], JsonText(d[present[i]])>>]

\* the characters of an object text: name : value , ... between braces
RECURSIVE Flatten(_)
Flatten(members) ==
    IF members = <<>>
    THEN <<>>
    ELSE <<Head(members)[1], ":">> \o Head(members)[2] \o <<",">> \o Flatten(Tail(members))

\* json.dumps(d, sort_keys=True)
JsonDumpsSorted(d) == <<"{">> \o Flatten(Members(d, SortedNames)) \o <<"}">>

\* a dump that leaves out the members whose value is null
JsonDumpDropsNulls(d) ==
    Members([k \in {x \in DOMAIN d : d[x] # JNull} |-> d[k]], LiteralOrder)

\* json.dump(d, f, indent=2): members in insertion order
JsonDump(d) == Members(d, LiteralOrder)

\* json.load of a complete object text: a repeated name keeps its last value
JsonLoad(text) ==
    LET names == {text[i][1] : i \in 1..Len(text)}
        last(k) == CHOOSE i \in 1..Len(text) :
                      /\ text[i][1] = k
                      /\ \A j \in (i + 1)..Len(text) : text[j][1] # k
    IN  [k \in names |-> JsonParse(text[last(k)][2]).v]

\* whether every member of the text parses
JsonWellFormed(text) == \A i \in 1..Len(text) : JsonParse(text[i][2]).ok

----------------------------------------------------------------------------
(* LicenseManager: the record and its checksum *)

LICENSE_TYPE_STRIPE == <<"stripe_payment">>
LICENSE_TYPE_KEY == <<"license_key">>
LICENSE_TYPE_PROMO == <<"promo_code">>

DefaultData ==
    [licensed |-> JBool(FALSE), license_type |-> JNull, stripe_session_id |-> JNull,
     stripe_payment_intent |-> JNull, license_key |-> JNull, activated_at |-> JNull,
     email |-> JNull, checksum |-> JNull]

\* hashlib.sha256(s.encode()).hexdigest()[:16], taken to be collision-free:
\* the digest is a string that determines the text it was computed from
Sha256Hex16(text) == <<"#">> \o text

\* a checksum that leaves the email field out of the hashed copy
CalculateChecksumSkipEmail(d) ==
    Sha256Hex16(JsonDumpsSorted([k \in (DOMAIN d) \ {"checksum", "email"} |-> d[k]]))

CalculateChecksum(d) ==
    Sha256Hex16(JsonDumpsSorted([k \in (DOMAIN d) \ {"checksum"} |-> d[k]]))

\* a verification that accepts whatever checksum is stored
VerifyChecksumAcceptsAny(d) == TRUE

\* a verification that trusts no record without a checksum
VerifyChecksumRequiresChecksum(d) == Get(d, "checksum") = JStr(CalculateChecksum(d))

VerifyChecksum(d) ==
    LET stored_checksum == Get(d, "checksum")
    IN  IF ~Truthy(stored_checksum)
        THEN TRUE
        ELSE stored_checksum = JStr(CalculateChecksum(d))

----------------------------------------------------------------------------
(* The license file: load and save *)

FileMissing == [kind |-> "missing", text |-> <<>>]
\* opened for writing (truncated) and not written to the end: not parseable
FileTruncated == [kind |-> "truncated", text |-> <<>>]
FileText(text) == [kind |-> "text", text |-> text]
\* exists, and open(license_file, 'r') raises IOError
FileUnreadable == [kind |-> "unreadable", text |-> <<>>]
\* a JSON document that is not an object: json.load returns a list, a number,
\* a string, a bool or None
FileNotObject == [kind |-> "not_object", text |-> <<>>]
\* bytes that are not text in the encoding open() reads with
FileUndecodable == [kind |-> "undecodable", text |-> <<>>]

\* whether _load_data raises: data.get of a value that is not a dict raises
\* AttributeError, f.read() of undecodable bytes raises UnicodeDecodeError, and
\* only json.JSONDecodeError and IOError are caught
LoadRaises(f) == f.kind \in {"not_object", "undecodable"}

\* what _load_data returns when it does not raise: the file is missing,
\* unreadable, not parseable, or an object text
LoadData(f) ==
    IF f.kind = "text" /\ JsonWellFormed(f.text)
    THEN LET loaded == JsonLoad(f.text)
         IN  IF ~VerifyChecksum(loaded) THEN DefaultData ELSE loaded
    ELSE DefaultData

\* what the file system does to one _save_data call
SaveOutcomes == {"ok", "mkdir_fail", "open_fail", "write_fail"}

\* a save that puts the default record back in memory when the write fails
SaveDataRollsBack(d, f, outcome) ==
    LET stamped == Put(d, "checksum", JStr(CalculateChecksum(d)))
    IN  IF outcome = "ok"
        THEN [data |-> stamped, file |-> FileText(JsonDump(stamped))]
        ELSE [data |-> DefaultData, file |-> f]

\* a save that stamps the checksum into the text it writes and leaves the
\* record in memory as it was
SaveDataStampsCopy(d, f, outcome) ==
    LET stamped == Put(d, "checksum", JStr(CalculateChecksum(d)))
    IN  IF outcome = "ok"
        THEN [data |-> d, file |-> FileText(JsonDump(stamped))]
        ELSE [data |-> d, file |-> f]

\* _save_data: the record and the file it leaves behind. mkdir raises before the
\* checksum is stamped; open raises before the file is touched; a write that
\* raises leaves the truncated file. Every OSError is caught and logged.
SaveData(d, f, outcome) ==
    LET stamped == Put(d, "checksum", JStr(CalculateChecksum(d)))
    IN  CASE outcome = "mkdir_fail" -> [data |-> d, file |-> f]
          [] outcome = "open_fail" -> [data |-> stamped, file |-> f]
          [] outcome = "write_fail" -> [data |-> stamped, file |-> FileTruncated]
          [] outcome = "ok" -> [data |-> stamped, file |-> FileText(JsonDump(stamped))]

\* the value _save_data returns: it has no return statement on either path
SaveDataReturn(outcome) == JNull

----------------------------------------------------------------------------
(* The key-list file and the cached key set *)

\* self._license_keys_cache: None, or a set of normalized keys
CacheNone == [loaded |-> FALSE, keys |-> {}]
CacheOf(keys) == [loaded |-> TRUE, keys |-> keys]

KeysUnconfigured == [kind |-> "unconfigured", doc |-> JNull]
KeysMissing == [kind |-> "missing", doc |-> JNull]
KeysUnreadable == [kind |-> "unreadable", doc |-> JNull]
KeysUnparseable == [kind |-> "unparseable", doc |-> JNull]
KeysJson(doc) == [kind |-> "json", doc |-> doc]

\* the name data is looked up under: "keys", one run of characters
KeysName == <<"keys">>

HasMember(obj, name) == \E i \in 1..Len(obj.members) : obj.members[i][1] = name

MemberOf(obj, name) ==
    obj.members[CHOOSE i \in 1..Len(obj.members) : obj.members[i][1] = name][2]

\* `for key in value`: a list gives its entries, a string its characters, a dict
\* its names (strings) in the order of the file; anything else raises TypeError
Iterate(v) ==
    CASE v.t = "list" -> [ok |-> TRUE, items |-> v.l]
      [] v.t = "str" -> [ok |-> TRUE, items |-> [i \in 1..Len(v.s) |-> JStr(<<v.s[i]>>)]]
      [] v.t = "obj" ->
            [ok |-> TRUE, items |-> [i \in 1..Len(v.members) |-> JStr(v.members[i][1])]]
      [] OTHER -> [ok |-> FALSE, items |-> <<>>]

\* the loop `for key in ...: cache.add(key.strip().upper())`: it stops with
\* AttributeError at the first entry that is not a string, keeping what it added
AddKeys(items) ==
    LET bad == {i \in 1..Len(items) : items[i].t # "str"}
        stop == IF bad = {} THEN Len(items) + 1
                ELSE CHOOSE i \in bad : \A j \in bad : i <= j
    IN  [cache |-> CacheOf({Normalize(items[i].s) : i \in 1..(stop - 1)}),
         raised |-> bad # {}]

\* a load that reads the key-list file again on every call
LoadLicenseKeysEveryCall(c, kf) ==
    IF kf.kind # "json"
    THEN [cache |-> CacheOf({}), raised |-> FALSE]
    ELSE IF kf.doc.t = "obj" /\ HasMember(kf.doc, KeysName)
    THEN LET it == Iterate(MemberOf(kf.doc, KeysName))
         IN  IF it.ok THEN AddKeys(it.items)
             ELSE [cache |-> CacheOf({}), raised |-> TRUE]
    ELSE IF kf.doc.t = "list"
    THEN AddKeys(kf.doc.l)
    ELSE [cache |-> CacheOf({}), raised |-> FALSE]

\* _load_license_keys: the cache it leaves and whether it raised
LoadLicenseKeys(c, kf) ==
    IF c.loaded
    THEN [cache |-> c, raised |-> FALSE]
    ELSE IF kf.kind # "json"
    THEN [cache |-> CacheOf({}), raised |-> FALSE]
    ELSE IF kf.doc.t = "obj" /\ HasMember(kf.doc, KeysName)
    THEN LET it == Iterate(MemberOf(kf.doc, KeysName))
         IN  IF it.ok THEN AddKeys(it.items)
             ELSE [cache |-> CacheOf({}), raised |-> TRUE]
    ELSE IF kf.doc.t = "list"
    THEN AddKeys(kf.doc.l)
    ELSE [cache |-> CacheOf({}), raised |-> FALSE]

\* a validation that looks the key up as typed, without strip and upper
ValidateLicenseKeyResultRaw(c, kf, key) ==
    LET got == LoadLicenseKeys(c, kf)
    IN  [cache |-> got.cache,
         result |-> IF got.raised THEN "raise"
                    ELSE IF key \in got.cache.keys THEN "True" ELSE "False"]

\* a validation that accepts every key while the key set is empty
ValidateLicenseKeyResultFailOpen(c, kf, key) ==
    LET got == LoadLicenseKeys(c, kf)
    IN  [cache |-> got.cache,
         result |-> IF got.raised THEN "raise"
                    ELSE IF got.cache.keys = {} \/ Normalize(key) \in got.cache.keys
                         THEN "True" ELSE "False"]

\* validate_license_key: the cache it leaves and "True", "False" or "raise"
ValidateLicenseKeyResult(c, kf, key) ==
    LET got == LoadLicenseKeys(c, kf)
    IN  [cache |-> got.cache,
         result |-> IF got.raised THEN "raise"
                    ELSE IF Normalize(key) \in got.cache.keys THEN "True" ELSE "False"]

----------------------------------------------------------------------------
(* Inputs *)

KeyChars == {" ", "a", "A"}

\* the strings passed as license keys
KeyStrings == UNION {[1..n -> KeyChars] : n \in 0..MaxKeyLen}

\* datetime.now().isoformat() readings
TimeAtoms == <<"2026-01-01T00:00:01", "2026-01-01T00:00:02", "2026-01-01T00:00:03">>
Stamps == {<<TimeAtoms[i]>> : i \in 1..MaxTime}

SessionIds == {<<"cs_test_123">>}
Emails == {JNull, JStr(<<"u@example.com">>)}
\* (payment_intent, email) of activate_with_stripe: both defaulted, or both given
StripeOptionals == {<<JNull, JNull>>, <<JStr(<<"pi_1">>), JStr(<<"u@example.com">>)>>}
PromoCodes == {<<" ", "a">>}

\* a key-list file in the modern shape, {"keys": [" a"]}
KeysModern == KeysJson(JObj(<< <<KeysName, JList(<<JStr(<<" ", "a">>)>>)>> >>))

\* key-list files that hold a list of key strings, in either shape, or no keys
WellFormedKeyFiles ==
    {KeysUnconfigured, KeysMissing,
     KeysModern,
     KeysJson(JObj(<< <<KeysName, JList(<<>>)>> >>)),
     KeysJson(JList(<<JStr(<<"a", "A">>), JStr(<<"A">>)>>)),
     KeysJson(JList(<<>>))}

\* key-list files that cannot be read or parsed, or are of another shape
MalformedKeyFiles ==
    {KeysUnreadable, KeysUnparseable,
     KeysJson(JObj(<< << <<"version">>, JInt(1)>> >>)),
     KeysJson(JObj(<< <<KeysName, JInt(1)>> >>)),
     KeysJson(JObj(<< <<KeysName, JStr(<<"a", "A">>)>> >>)),
     KeysJson(JList(<<JStr(<<"A">>), JInt(1)>>)),
     KeysJson(JObj(<< <<KeysName, JList(<<JNull>>)>> >>)),
     KeysJson(JObj(<< <<KeysName, JObj(<< << <<" ", "a">>, JInt(1)>> >>)>> >>)),
     KeysJson(JInt(1))}

KeyFiles == WellFormedKeyFiles \cup MalformedKeyFiles

----------------------------------------------------------------------------
(* Results and the record of the last operation *)

True == JBool(TRUE)
False == JBool(FALSE)
None == JNull
Raised == [t |-> "raise"]

Activations == {"activate_with_stripe", "activate_with_key", "activate_with_promo"}

\* the operations that assign self.data and call _save_data
Mutations == Activations \cup {"revoke_license"}

\* name, result, arguments and the outcome of the save the operation made;
\* nkey is strip+upper of the key argument of a key operation; again is "no",
\* or the save outcome of the operation before it when that was the same one;
\* revoked: revoke_license has returned and no activation has returned True since
OpRec(name, result, args, nkey, save) ==
    [name |-> name, result |-> result, args |-> args, nkey |-> nkey, save |-> save,
     again |-> IF op.name = name THEN op.save ELSE "no",
     revoked |-> IF name = "revoke_license" THEN TRUE
                 ELSE IF name \in Activations /\ result = True THEN FALSE
                 ELSE op.revoked]

\* the file text a save leaves as the last successfully written one
SavedAfter(outcome, f) ==
    CASE outcome = "ok" -> f.text
      [] outcome = "write_fail" -> <<>>
      [] OTHER -> saved

EditsAfter(outcome) == IF outcome \in {"ok", "write_fail"} THEN 0 ELSE edits

\* the state of the accessor get_license_manager and of the blocklist settings
others == <<instance, objects, calls, resets, blocklist, settings>>

----------------------------------------------------------------------------
(* LicenseManager operations *)

\* LicenseManager(license_file, license_keys_file)
\* when _load_data raises, __init__ raises and there is no object
Construct ==
    /\ ~alive
    /\ IF LoadRaises(file)
       THEN /\ op' = OpRec("construct", Raised, <<>>, <<>>, "none")
            /\ UNCHANGED <<alive, data, cache>>
       ELSE /\ alive' = TRUE
            /\ data' = LoadData(file)
            /\ cache' = CacheNone
            /\ op' = OpRec("construct", None, <<>>, <<>>, "none")
    /\ UNCHANGED <<file, keysFile, saved, edits, threads, others>>

IsLicensedResult(d) == IF "licensed" \in DOMAIN d THEN d["licensed"] ELSE False

IsLicensed ==
    /\ alive
    /\ op' = OpRec("is_licensed", IsLicensedResult(data), <<>>, <<>>, "none")
    /\ UNCHANGED <<alive, data, cache, file, keysFile, saved, edits, threads, others>>

\* get_license_info() of an engine holding the record d
GetLicenseInfo(d) ==
    [licensed |-> IsLicensedResult(d), type |-> Get(d, "license_type"),
     activated_at |-> Get(d, "activated_at"), email |-> Get(d, "email")]

GetLicenseType ==
    /\ alive
    /\ op' = OpRec("get_license_type", Get(data, "license_type"), <<>>, <<>>, "none")
    /\ UNCHANGED <<alive, data, cache, file, keysFile, saved, edits, threads, others>>

\* an activation that updates the current record and leaves its license_key
StripeRecordMerged(session_id, payment_intent, email, now) ==
    [licensed |-> JBool(TRUE), license_type |-> JStr(LICENSE_TYPE_STRIPE),
     stripe_session_id |-> JStr(session_id), stripe_payment_intent |-> payment_intent,
     license_key |-> Get(data, "license_key"), activated_at |-> JStr(now),
     email |-> email, checksum |-> JNull]

StripeRecord(session_id, payment_intent, email, now) ==
    [licensed |-> JBool(TRUE), license_type |-> JStr(LICENSE_TYPE_STRIPE),
     stripe_session_id |-> JStr(session_id), stripe_payment_intent |-> payment_intent,
     license_key |-> JNull, activated_at |-> JStr(now), email |-> email,
     checksum |-> JNull]

ActivateWithStripe(session_id, payment_intent, email, now, outcome) ==
    /\ alive
    /\ LET s == SaveData(StripeRecord(session_id, payment_intent, email, now), file, outcome)
       IN  /\ data' = s.data
           /\ file' = s.file
           /\ saved' = SavedAfter(outcome, s.file)
    /\ edits' = EditsAfter(outcome)
    /\ op' = OpRec("activate_with_stripe", True,
                   <<JStr(session_id), payment_intent, email>>, <<>>, outcome)
    /\ UNCHANGED <<alive, cache, keysFile, threads, others>>

KeyRecord(normalized_key, now) ==
    [licensed |-> JBool(TRUE), license_type |-> JStr(LICENSE_TYPE_KEY),
     stripe_session_id |-> JNull, stripe_payment_intent |-> JNull,
     license_key |-> JStr(normalized_key), activated_at |-> JStr(now), email |-> JNull,
     checksum |-> JNull]

\* activate_with_key(license_key); the clock reading and the outcome of the save
\* are drawn from nows and outcomes when the key is valid
ActivateWithKey(license_key, nows, outcomes) ==
    /\ alive
    /\ LET v == ValidateLicenseKeyResult(cache, keysFile, license_key)
       IN  /\ cache' = v.cache
           /\ IF v.result = "True"
              THEN \E now \in nows, outcome \in outcomes :
                     LET s == SaveData(KeyRecord(Normalize(license_key), now), file, outcome)
                     IN  /\ data' = s.data
                         /\ file' = s.file
                         /\ saved' = SavedAfter(outcome, s.file)
                         /\ edits' = EditsAfter(outcome)
                         /\ op' = OpRec("activate_with_key", True, <<>>,
                                        Normalize(license_key), outcome)
              ELSE /\ UNCHANGED <<data, file, saved, edits>>
                   /\ op' = OpRec("activate_with_key",
                                  IF v.result = "raise" THEN Raised ELSE False,
                                  <<>>, Normalize(license_key), "none")
    /\ UNCHANGED <<alive, keysFile, threads, others>>

\* a promo activation that stores the code normalized like a license key
PromoRecordNormalized(session_id, promo_code, email, now) ==
    [licensed |-> JBool(TRUE), license_type |-> JStr(LICENSE_TYPE_PROMO),
     stripe_session_id |-> JStr(session_id), stripe_payment_intent |-> JNull,
     license_key |-> JStr(Normalize(promo_code)), activated_at |-> JStr(now),
     email |-> email, checksum |-> JNull]

PromoRecord(session_id, promo_code, email, now) ==
    [licensed |-> JBool(TRUE), license_type |-> JStr(LICENSE_TYPE_PROMO),
     stripe_session_id |-> JStr(session_id), stripe_payment_intent |-> JNull,
     license_key |-> JStr(promo_code), activated_at |-> JStr(now), email |-> email,
     checksum |-> JNull]

ActivateWithPromo(session_id, promo_code, email, now, outcome) ==
    /\ alive
    /\ LET s == SaveData(PromoRecord(session_id, promo_code, email, now), file, outcome)
       IN  /\ data' = s.data
           /\ file' = s.file
           /\ saved' = SavedAfter(outcome, s.file)
    /\ edits' = EditsAfter(outcome)
    /\ op' = OpRec("activate_with_promo", True,
                   <<JStr(session_id), JStr(promo_code), email>>, <<>>, outcome)
    /\ UNCHANGED <<alive, cache, keysFile, threads, others>>

ValidateLicenseKey(key) ==
    /\ alive
    /\ LET v == ValidateLicenseKeyResult(cache, keysFile, key)
       IN  /\ cache' = v.cache
           /\ op' = OpRec("validate_license_key",
                          CASE v.result = "True" -> True
                            [] v.result = "False" -> False
                            [] OTHER -> Raised,
                          <<>>, Normalize(key), "none")
    /\ UNCHANGED <<alive, data, file, keysFile, saved, edits, threads, others>>

\* a revoke that clears the licensed flag and keeps the other fields
RevokedRecordKeepsFields == Put(data, "licensed", JBool(FALSE))

\* self.data = self._default_data()
RevokedRecord == DefaultData

RevokeLicense(outcome) ==
    /\ alive
    /\ LET s == SaveData(RevokedRecord, file, outcome)
       IN  /\ data' = s.data
           /\ file' = s.file
           /\ saved' = SavedAfter(outcome, s.file)
    /\ edits' = EditsAfter(outcome)
    /\ op' = OpRec("revoke_license", None, <<>>, <<>>, outcome)
    /\ UNCHANGED <<alive, cache, keysFile, threads, others>>

\* the process ends: the LicenseManager object is gone, the files stay
Exit ==
    /\ alive
    /\ alive' = FALSE
    /\ data' = DefaultData
    /\ cache' = CacheNone
    /\ op' = OpRec("exit", None, <<>>, <<>>, "none")
    /\ UNCHANGED <<file, keysFile, saved, edits, threads, others>>

\* the threads that call the engine, and a thread that is inside no call
Threads == {"t1", "t2"}
\* the set a thread's local valid_keys refers to: none yet, the set that is
\* self._license_keys_cache now, or one that has been replaced since, with the
\* keys it held then
NoKeys == [kind |-> "none", keys |-> {}]
CurrentKeys == [kind |-> "current", keys |-> {}]
ReplacedKeys(keys) == [kind |-> "replaced", keys |-> keys]

Idle == [pc |-> "idle", rec |-> DefaultData, sum |-> <<>>, buf |-> <<>>,
         key |-> <<>>, todo |-> <<>>, valid |-> NoKeys, result |-> None]

\* get_license_manager has not been called: the global is None
IdleCall == [pc |-> "idle", obj |-> None, ret |-> None, epoch |-> 0]

\* no settings file
SettingsMissing == [kind |-> "missing", doc |-> None]

\* the state after LicenseManager(license_file, license_keys_file) over a fresh
\* store (no license file) and the key-list file kf
Fresh(kf) ==
    /\ alive = TRUE
    /\ file = FileMissing
    /\ data = LoadData(FileMissing)
    /\ cache = CacheNone
    /\ keysFile = kf
    /\ saved = <<>>
    /\ edits = 0
    /\ threads = [t \in Threads |-> Idle]
    /\ instance = None
    /\ objects = <<>>
    /\ calls = [t \in Threads |-> IdleCall]
    /\ resets = 0
    /\ blocklist = None
    /\ settings = SettingsMissing
    /\ op = [name |-> "construct", result |-> None, args |-> <<>>, nkey |-> <<>>,
             save |-> "none", again |-> "no", revoked |-> FALSE]

----------------------------------------------------------------------------
(* Spec: one engine after another over the same license file, every save    *)
(* succeeding or failing in any of the ways _save_data survives.            *)

\* the keys tried in this specification: valid and invalid ones for KeysModern
SomeKeys == {<<"a">>, <<"A", "A">>}

Init == \E kf \in {KeysModern, KeysMissing} : Fresh(kf)

Next ==
    \/ \E sid \in SessionIds, opt \in StripeOptionals, now \in Stamps,
          o \in SaveOutcomes : ActivateWithStripe(sid, opt[1], opt[2], now, o)
    \/ \E k \in SomeKeys : ActivateWithKey(k, Stamps, SaveOutcomes)
    \/ \E sid \in SessionIds, pc \in PromoCodes, em \in Emails, now \in Stamps,
          o \in SaveOutcomes : ActivateWithPromo(sid, pc, em, now, o)
    \/ \E o \in SaveOutcomes : RevokeLicense(o)
    \/ IsLicensed
    \/ Exit
    \/ Construct

Spec == Init /\ [][Next]_vars

----------------------------------------------------------------------------
(* SpecKeys: key validation over every kind of key-list file.               *)

\* the clock reading and save outcomes of this specification
KeysStamps == {<<TimeAtoms[1]>>}
KeysOutcomes == {"ok", "open_fail"}

InitKeys == \E kf \in KeyFiles : Fresh(kf)

NextKeys ==
    \/ \E k \in KeyStrings : ActivateWithKey(k, KeysStamps, KeysOutcomes)
    \/ \E k \in KeyStrings : ValidateLicenseKey(k)
    \/ \E o \in KeysOutcomes :
          ActivateWithStripe(<<"cs_test_123">>, JNull, JNull, <<TimeAtoms[1]>>, o)
    \/ \E o \in KeysOutcomes :
          ActivateWithPromo(<<"cs_test_123">>, <<" ", "a">>, JNull, <<TimeAtoms[1]>>, o)
    \/ \E o \in KeysOutcomes : RevokeLicense(o)
    \/ GetLicenseType

SpecKeys == InitKeys /\ [][NextKeys]_vars

----------------------------------------------------------------------------
(* SpecStore: the license file is edited by hand between two processes.     *)

\* value texts an editor writes: null, true, "", "x", and one that is no JSON
TamperTokens == {<<"null">>, <<"true">>, <<"\"", "\"">>, <<"\"", "x", "\"">>, <<"tru">>}

SetMember(text, i, tokens) == [text EXCEPT ![i] = <<text[i][1], tokens>>]
RemoveMember(text, i) == SubSeq(text, 1, i - 1) \o SubSeq(text, i + 1, Len(text))
AddMember(text, name, tokens) == Append(text, <<name, tokens>>)

\* the texts one edit of a member makes of a text
EditsOf(text) ==
    {SetMember(text, i, tk) : i \in 1..Len(text), tk \in TamperTokens}
    \cup {RemoveMember(text, i) : i \in 1..Len(text)}
    \cup {AddMember(text, "extra", tk) : tk \in TamperTokens}

\* whole files put in place of the license file: [1], bytes that are no text,
\* a file that cannot be read, {"licensed": true},
\* {"licensed": false, "email": "x"}
Overwrites ==
    {FileNotObject, FileUndecodable, FileUnreadable,
     FileText(<< <<"licensed", <<"true">>>> >>),
     FileText(<< <<"licensed", <<"false">>>>, <<"email", <<"\"", "x", "\"">>>> >>)}

\* somebody edits or replaces the license file while no process runs
EditFile ==
    /\ ~alive
    /\ edits < MaxEdits
    /\ \E new \in Overwrites \cup
                  (IF file.kind = "text"
                   THEN {FileText(text) : text \in EditsOf(file.text)} ELSE {}) :
          /\ new # file
          /\ file' = new
    /\ edits' = edits + 1
    /\ op' = OpRec("edit", None, <<>>, <<>>, "none")
    /\ UNCHANGED <<alive, data, cache, keysFile, saved, threads, others>>

\* the save outcome of this specification: every write succeeds
StoreOutcomes == {"ok"}

InitStore == Fresh(KeysModern)

NextStore ==
    \/ \E o \in StoreOutcomes :
          ActivateWithStripe(<<"cs_test_123">>, JNull, JStr(<<"u@example.com">>),
                             <<TimeAtoms[1]>>, o)
    \/ \E k \in SomeKeys : ActivateWithKey(k, {<<TimeAtoms[1]>>}, StoreOutcomes)
    \/ \E o \in StoreOutcomes :
          ActivateWithPromo(<<"cs_test_123">>, <<" ", "a">>, JNull, <<TimeAtoms[1]>>, o)
    \/ \E o \in StoreOutcomes : RevokeLicense(o)
    \/ Exit
    \/ EditFile
    \/ Construct

SpecStore == InitStore /\ [][NextStore]_vars

----------------------------------------------------------------------------
(* SpecCache: the key-list file is replaced while engines run.              *)

\* the key-list files of this specification: none, {"keys": [" a"]},
\* ["aA", "A"], [] and ["A", 1]
CacheKeyFiles ==
    {KeysMissing, KeysModern,
     KeysJson(JList(<<JStr(<<"a", "A">>), JStr(<<"A">>)>>)),
     KeysJson(JList(<<>>)),
     KeysJson(JList(<<JStr(<<"A">>), JInt(1)>>))}

\* the keys tried in this specification
CacheKeys == {<<"a">>, <<"A", "a">>, <<" ">>}

\* somebody adds keys to the key-list file, removes keys from it, or removes it
EditKeysFile ==
    /\ \E kf \in CacheKeyFiles :
          /\ kf # keysFile
          /\ keysFile' = kf
    /\ op' = OpRec("edit_keys", None, <<>>, <<>>, "none")
    /\ UNCHANGED <<alive, data, cache, file, saved, edits, threads, others>>

InitCache == \E kf \in CacheKeyFiles : Fresh(kf)

NextCache ==
    \/ \E k \in CacheKeys : ValidateLicenseKey(k)
    \/ \E k \in CacheKeys : ActivateWithKey(k, {<<TimeAtoms[1]>>}, {"ok"})
    \/ EditKeysFile
    \/ GetLicenseType
    \/ Exit
    \/ Construct

SpecCache == InitCache /\ [][NextCache]_vars

----------------------------------------------------------------------------
(* SpecThreads: two threads call activations or revoke on one engine; a     *)
(* thread switch can fall between any two of the steps of a call. For       *)
(* activate_with_key first those of _load_license_keys: the test of the     *)
(* cache, self._license_keys_cache = set(), reading the file, each add,     *)
(* the return of the set, and then the membership test. For every call:     *)
(* self.data = {...}; self._calculate_checksum(self.data);                  *)
(* self.data["checksum"] = ...; open(license_file, 'w'); json.dump(self.data,*)
(* f); the close at the end of the with block, which writes the buffered    *)
(* text at the start of the file.                                           *)

\* the number of characters of an atom of a text
AtomWidth(c) ==
    CASE c \in {"null", "true"} -> 4
      [] c = "false" -> 5
      [] c = "cs_test_123" -> 11
      [] c = "pi_1" -> 4
      [] c = "u@example.com" -> 13
      [] c = "stripe_payment" -> 14
      [] c = "license_key" -> 11
      [] c = "promo_code" -> 10
      [] c \in {TimeAtoms[i] : i \in 1..Len(TimeAtoms)} -> 19
      [] OTHER -> 1

RECURSIVE Width(_)
Width(tokens) ==
    IF tokens = <<>> THEN 0 ELSE AtomWidth(Head(tokens)) + Width(Tail(tokens))

\* the characters of a value text; a digest is 16 hex digits between quotes
ValueWidth(tokens) ==
    IF Len(tokens) >= 2 /\ tokens[2] = "#" THEN 18 ELSE Width(tokens)

\* len(name) of the field names
NameWidth(name) ==
    CASE name = "licensed" -> 8
      [] name = "license_type" -> 12
      [] name = "stripe_session_id" -> 17
      [] name = "stripe_payment_intent" -> 21
      [] name = "license_key" -> 11
      [] name = "activated_at" -> 12
      [] name = "email" -> 5
      [] name = "checksum" -> 8
      [] name = "extra" -> 5

\* the lines `  "name": value,\n` of json.dump(..., indent=2)
RECURSIVE LinesLen(_)
LinesLen(text) ==
    IF text = <<>>
    THEN 0
    ELSE NameWidth(Head(text)[1]) + ValueWidth(Head(text)[2]) + 8 + LinesLen(Tail(text))

\* the length of the text json.dump(d, f, indent=2) writes: the lines between
\* "{\n" and "}", the last line without its comma
ByteLen(text) == 2 + LinesLen(text)

\* a complete text followed by the end of a longer, older one: json.load raises
\* JSONDecodeError (extra data); text is the older text, of the same length
FileGarbled(text) == [kind |-> "garbled", text |-> text]

FileLen(f) == IF f.kind \in {"text", "garbled"} THEN ByteLen(f.text) ELSE 0

\* the file after a descriptor opened with 'w' writes buf at offset 0 and is
\* closed: what the file holds beyond the end of buf stays
WriteAtStart(f, buf) ==
    IF FileLen(f) > ByteLen(buf) THEN FileGarbled(f.text) ELSE FileText(buf)

\* self.data = {...} of activate_with_stripe, activate_with_promo, revoke_license
ThreadAssign(t, rec) ==
    /\ alive
    /\ threads[t].pc = "idle"
    /\ data' = rec
    /\ threads' = [threads EXCEPT ![t] = [@ EXCEPT !.pc = "assigned", !.rec = rec]]
    /\ UNCHANGED <<alive, cache, file, keysFile, saved, edits, op, others>>

\* _load_license_keys up to the loop: the entries `for key in ...` will give,
\* and whether the call raises before the first of them
ReadKeyItems(kf) ==
    IF kf.kind # "json"
    THEN [items |-> <<>>, raised |-> FALSE]
    ELSE IF kf.doc.t = "obj" /\ HasMember(kf.doc, KeysName)
    THEN LET it == Iterate(MemberOf(kf.doc, KeysName))
         IN  [items |-> it.items, raised |-> ~it.ok]
    ELSE IF kf.doc.t = "list"
    THEN [items |-> kf.doc.l, raised |-> FALSE]
    ELSE [items |-> <<>>, raised |-> FALSE]

\* activate_with_key(license_key) -> validate_license_key ->
\* _load_license_keys: `if self._license_keys_cache is not None`
ThreadKeysTest(t, license_key) ==
    /\ alive
    /\ threads[t].pc = "idle"
    /\ threads' = [threads EXCEPT ![t] =
                      [@ EXCEPT !.pc = IF cache.loaded THEN "keys_return" ELSE "keys_new",
                                !.key = Normalize(license_key)]]
    /\ UNCHANGED <<alive, data, cache, file, keysFile, saved, edits, op, others>>

\* self._license_keys_cache = set(): a thread that holds the set this replaces
\* keeps it as it is now
ThreadKeysNew(t) ==
    /\ threads[t].pc = "keys_new"
    /\ cache' = CacheOf({})
    /\ threads' = [u \in Threads |->
                      IF u = t THEN [threads[u] EXCEPT !.pc = "keys_read"]
                      ELSE IF threads[u].valid.kind = "current"
                      THEN [threads[u] EXCEPT !.valid = ReplacedKeys(cache.keys)]
                      ELSE threads[u]]
    /\ UNCHANGED <<alive, data, file, keysFile, saved, edits, op, others>>

\* the file is opened and parsed, `for key in ...` begins; TypeError when the
\* value cannot be iterated
ThreadKeysRead(t) ==
    /\ threads[t].pc = "keys_read"
    /\ LET r == ReadKeyItems(keysFile)
       IN  threads' = [threads EXCEPT ![t] =
                          IF r.raised
                          THEN [@ EXCEPT !.pc = "returned", !.result = Raised]
                          ELSE [@ EXCEPT !.pc = "keys_add", !.todo = r.items]]
    /\ UNCHANGED <<alive, data, cache, file, keysFile, saved, edits, op, others>>

\* self._license_keys_cache.add(key.strip().upper()) for the next entry, into
\* the set the attribute holds now; AttributeError when the entry is no string
ThreadKeysAdd(t) ==
    /\ threads[t].pc = "keys_add"
    /\ threads[t].todo # <<>>
    /\ LET entry == Head(threads[t].todo)
       IN  IF entry.t = "str"
           THEN /\ cache' = CacheOf(cache.keys \cup {Normalize(entry.s)})
                /\ threads' = [threads EXCEPT ![t] = [@ EXCEPT !.todo = Tail(@)]]
           ELSE /\ threads' = [threads EXCEPT ![t] =
                                  [@ EXCEPT !.pc = "returned", !.result = Raised]]
                /\ UNCHANGED cache
    /\ UNCHANGED <<alive, data, file, keysFile, saved, edits, op, others>>

\* return self._license_keys_cache, after the loop or at line 274
ThreadKeysReturn(t) ==
    /\ \/ threads[t].pc = "keys_return"
       \/ threads[t].pc = "keys_add" /\ threads[t].todo = <<>>
    /\ threads' = [threads EXCEPT ![t] = [@ EXCEPT !.pc = "keys_got", !.valid = CurrentKeys]]
    /\ UNCHANGED <<alive, data, cache, file, keysFile, saved, edits, op, others>>

\* `normalized_key in valid_keys`; activate_with_key returns False when not
ThreadKeysMember(t) ==
    /\ threads[t].pc = "keys_got"
    /\ LET keys == IF threads[t].valid.kind = "current" THEN cache.keys
                   ELSE threads[t].valid.keys
       IN  threads' = [threads EXCEPT ![t] =
                          IF threads[t].key \in keys
                          THEN [@ EXCEPT !.pc = "valid", !.valid = NoKeys]
                          ELSE [@ EXCEPT !.pc = "returned", !.valid = NoKeys,
                                         !.result = False]]
    /\ UNCHANGED <<alive, data, cache, file, keysFile, saved, edits, op, others>>

\* activate_with_key: self.data = {...} for the key found valid
ThreadAssignKey(t, now) ==
    /\ threads[t].pc = "valid"
    /\ LET rec == KeyRecord(threads[t].key, now)
       IN  /\ data' = rec
           /\ threads' = [threads EXCEPT ![t] = [@ EXCEPT !.pc = "assigned", !.rec = rec]]
    /\ UNCHANGED <<alive, cache, file, keysFile, saved, edits, op, others>>

\* _save_data: self._calculate_checksum(self.data), the right-hand side
ThreadChecksum(t) ==
    /\ threads[t].pc = "assigned"
    /\ threads' = [threads EXCEPT ![t] =
                      [@ EXCEPT !.pc = "summed", !.sum = CalculateChecksum(data)]]
    /\ UNCHANGED <<alive, data, cache, file, keysFile, saved, edits, op, others>>

\* _save_data: self.data["checksum"] = <the value computed>
ThreadStamp(t) ==
    /\ threads[t].pc = "summed"
    /\ data' = Put(data, "checksum", JStr(threads[t].sum))
    /\ threads' = [threads EXCEPT ![t] = [@ EXCEPT !.pc = "stamped"]]
    /\ UNCHANGED <<alive, cache, file, keysFile, saved, edits, op, others>>

\* _save_data: open(self.license_file, 'w') creates or empties the file
ThreadOpen(t) ==
    /\ threads[t].pc = "stamped"
    /\ file' = FileTruncated
    /\ threads' = [threads EXCEPT ![t] = [@ EXCEPT !.pc = "opened"]]
    /\ UNCHANGED <<alive, data, cache, keysFile, saved, edits, op, others>>

\* _save_data: json.dump(self.data, f, indent=2) into the buffer of f
ThreadDump(t) ==
    /\ threads[t].pc = "opened"
    /\ threads' = [threads EXCEPT ![t] = [@ EXCEPT !.pc = "dumped", !.buf = JsonDump(data)]]
    /\ UNCHANGED <<alive, data, cache, file, keysFile, saved, edits, op, others>>

\* _save_data: the with block closes f, which writes the buffer; the call returns
ThreadClose(t) ==
    /\ threads[t].pc = "dumped"
    /\ file' = WriteAtStart(file, threads[t].buf)
    /\ threads' = [threads EXCEPT ![t] = [@ EXCEPT !.pc = "returned"]]
    /\ UNCHANGED <<alive, data, cache, keysFile, saved, edits, op, others>>

\* the records of the calls the threads make
ThreadRecords ==
    {StripeRecord(<<"cs_test_123">>, JStr(<<"pi_1">>), JStr(<<"u@example.com">>),
                  <<TimeAtoms[1]>>),
     PromoRecord(<<"cs_test_123">>, <<" ", "a">>, JNull, <<TimeAtoms[1]>>),
     RevokedRecord}

InitThreads == Fresh(KeysModern)

NextThreads ==
    \E t \in Threads :
        \/ \E rec \in ThreadRecords : ThreadAssign(t, rec)
        \/ ThreadKeysTest(t, <<"a">>)
        \/ ThreadKeysNew(t)
        \/ ThreadKeysRead(t)
        \/ ThreadKeysAdd(t)
        \/ ThreadKeysReturn(t)
        \/ ThreadKeysMember(t)
        \/ ThreadAssignKey(t, <<TimeAtoms[1]>>)
        \/ ThreadChecksum(t)
        \/ ThreadStamp(t)
        \/ ThreadOpen(t)
        \/ ThreadDump(t)
        \/ ThreadClose(t)

SpecThreads == InitThreads /\ [][NextThreads]_vars

----------------------------------------------------------------------------
(* SpecAccessor: two threads call get_license_manager, use the engine it    *)
(* returns, and call reset_license_manager. A thread switch can fall        *)
(* between any two steps of get_license_manager: the test of the global,    *)
(* the constructor call, the store into the global, the load for `return`,  *)
(* and between any two steps of a call on the engine, as in SpecThreads.    *)

\* a reference to the i-th LicenseManager the accessor constructed
ObjRef(i) == [t |-> "object", id |-> i]

\* get_license_manager(): `if _license_manager_instance is None:`
GetTest(t) ==
    /\ calls[t].pc \in {"idle", "returned"}
    /\ threads[t].pc = "idle"
    /\ calls' = [calls EXCEPT ![t] =
                    [pc |-> IF instance = None THEN "construct" ELSE "return",
                     obj |-> None, ret |-> None, epoch |-> resets]]
    /\ UNCHANGED <<alive, data, cache, file, keysFile, saved, edits, op, threads,
                   instance, objects, resets, blocklist, settings>>

\* LicenseManager(license_file=config.LICENSE_FILE, ...): the value is on the
\* thread's stack; when __init__ raises, so does get_license_manager
GetConstruct(t) ==
    /\ calls[t].pc = "construct"
    /\ IF LoadRaises(file)
       THEN /\ calls' = [calls EXCEPT ![t].pc = "returned", ![t].ret = Raised]
            /\ UNCHANGED objects
       ELSE /\ Len(objects) < MaxObjects
            /\ objects' = Append(objects, [data |-> LoadData(file), cache |-> CacheNone,
                                            epoch |-> resets])
            /\ calls' = [calls EXCEPT ![t].pc = "store",
                                       ![t].obj = ObjRef(Len(objects) + 1)]
    /\ UNCHANGED <<alive, data, cache, file, keysFile, saved, edits, op, threads,
                   instance, resets, blocklist, settings>>

\* _license_manager_instance = <the object constructed>
GetStore(t) ==
    /\ calls[t].pc = "store"
    /\ instance' = calls[t].obj
    /\ calls' = [calls EXCEPT ![t].pc = "return"]
    /\ UNCHANGED <<alive, data, cache, file, keysFile, saved, edits, op, threads,
                   objects, resets, blocklist, settings>>

\* return _license_manager_instance
GetReturn(t) ==
    /\ calls[t].pc = "return"
    /\ calls' = [calls EXCEPT ![t].pc = "returned", ![t].ret = instance]
    /\ UNCHANGED <<alive, data, cache, file, keysFile, saved, edits, op, threads,
                   instance, objects, resets, blocklist, settings>>

\* reset_license_manager(), called by a thread that is inside no call
ResetLicenseManager(t) ==
    /\ calls[t].pc \in {"idle", "returned"}
    /\ threads[t].pc = "idle"
    /\ resets < MaxResets
    /\ instance' = None
    /\ resets' = resets + 1
    /\ UNCHANGED <<alive, data, cache, file, keysFile, saved, edits, op, threads,
                   objects, calls, blocklist, settings>>

\* the record a caller's activate_with_stripe("cs_test_123") assigns
AccessorRecords == {StripeRecord(<<"cs_test_123">>, JNull, JNull, <<TimeAtoms[1]>>)}

\* thread t holds an engine from its last get_license_manager call
HoldsEngine(t) == calls[t].pc = "returned" /\ calls[t].ret \notin {None, Raised}

\* a thread calls activate_with_stripe on the engine its last
\* get_license_manager call returned; the steps are those of SpecThreads, on
\* the self.data of that engine. self.data = {...}
UseAssign(t, rec) ==
    /\ HoldsEngine(t)
    /\ threads[t].pc = "idle"
    /\ objects' = [objects EXCEPT ![calls[t].ret.id].data = rec]
    /\ threads' = [threads EXCEPT ![t] = [@ EXCEPT !.pc = "assigned"]]
    /\ UNCHANGED <<alive, data, cache, file, keysFile, saved, edits, op,
                   instance, calls, resets, blocklist, settings>>

\* _save_data: self._calculate_checksum(self.data), the right-hand side
UseChecksum(t) ==
    /\ HoldsEngine(t)
    /\ threads[t].pc = "assigned"
    /\ threads' = [threads EXCEPT ![t] =
                      [@ EXCEPT !.pc = "summed",
                                !.sum = CalculateChecksum(objects[calls[t].ret.id].data)]]
    /\ UNCHANGED <<alive, data, cache, file, keysFile, saved, edits, op, others>>

\* _save_data: self.data["checksum"] = <the value computed>
UseStamp(t) ==
    /\ HoldsEngine(t)
    /\ threads[t].pc = "summed"
    /\ objects' = [objects EXCEPT ![calls[t].ret.id].data =
                                     Put(@, "checksum", JStr(threads[t].sum))]
    /\ threads' = [threads EXCEPT ![t] = [@ EXCEPT !.pc = "stamped"]]
    /\ UNCHANGED <<alive, data, cache, file, keysFile, saved, edits, op,
                   instance, calls, resets, blocklist, settings>>

\* _save_data: open(self.license_file, 'w') creates or empties the file
UseOpen(t) ==
    /\ HoldsEngine(t)
    /\ threads[t].pc = "stamped"
    /\ file' = FileTruncated
    /\ threads' = [threads EXCEPT ![t] = [@ EXCEPT !.pc = "opened"]]
    /\ UNCHANGED <<alive, data, cache, keysFile, saved, edits, op, others>>

\* _save_data: json.dump(self.data, f, indent=2) into the buffer of f
UseDump(t) ==
    /\ HoldsEngine(t)
    /\ threads[t].pc = "opened"
    /\ threads' = [threads EXCEPT ![t] =
                      [@ EXCEPT !.pc = "dumped",
                                !.buf = JsonDump(objects[calls[t].ret.id].data)]]
    /\ UNCHANGED <<alive, data, cache, file, keysFile, saved, edits, op, others>>

\* _save_data: the with block closes f, which writes the buffer; the call
\* returns and the thread is free for its next call
UseClose(t) ==
    /\ HoldsEngine(t)
    /\ threads[t].pc = "dumped"
    /\ file' = WriteAtStart(file, threads[t].buf)
    /\ threads' = [threads EXCEPT ![t] = Idle]
    /\ UNCHANGED <<alive, data, cache, keysFile, saved, edits, op, others>>

\* the process has started: no engine, no license file, the global is None
InitAccessor ==
    /\ alive = FALSE
    /\ file = FileMissing
    /\ data = DefaultData
    /\ cache = CacheNone
    /\ keysFile = KeysModern
    /\ saved = <<>>
    /\ edits = 0
    /\ threads = [t \in Threads |-> Idle]
    /\ instance = None
    /\ objects = <<>>
    /\ calls = [t \in Threads |-> IdleCall]
    /\ resets = 0
    /\ blocklist = None
    /\ settings = SettingsMissing
    /\ op = [name |-> "start", result |-> None, args |-> <<>>, nkey |-> <<>>,
             save |-> "none", again |-> "no", revoked |-> FALSE]

NextAccessor ==
    \E t \in Threads :
        \/ GetTest(t)
        \/ GetConstruct(t)
        \/ GetStore(t)
        \/ GetReturn(t)
        \/ ResetLicenseManager(t)
        \/ \E rec \in AccessorRecords : UseAssign(t, rec)
        \/ UseChecksum(t)
        \/ UseStamp(t)
        \/ UseOpen(t)
        \/ UseDump(t)
        \/ UseClose(t)

SpecAccessor == InitAccessor /\ [][NextAccessor]_vars

----------------------------------------------------------------------------
(* SpecBlocklist: screen/blocklist.py. One BlocklistManager after another   *)
(* over the same settings file; the Blocklist it holds is changed by        *)
(* enable_category, disable_category, add_custom_pattern and                *)
(* remove_custom_pattern. A Blocklist is a record of its two fields:        *)
(* enabled_categories, a set of category ids, and custom_patterns, a        *)
(* sequence of strings. A dict is a record of Python values, a list a       *)
(* sequence; the settings file holds a JSON value.                          *)

\* the ids of PRESET_CATEGORIES and those with "default_enabled": True
PRESET_CATEGORIES ==
    {"social_media", "video_streaming", "gaming", "messaging", "news_entertainment"}
DefaultEnabled == {"social_media", "video_streaming", "gaming"}

\* Blocklist(enabled_categories, custom_patterns), __post_init__ included
Blocklist(enabled_categories, custom_patterns) ==
    [enabled_categories |-> IF enabled_categories = {} THEN DefaultEnabled
                            ELSE enabled_categories,
     custom_patterns |-> custom_patterns]

\* set(a_list)
SetOfList(l) == {l[i] : i \in 1..Len(l)}

\* list(a_set): the elements once each, in the order the set iterates them;
\* the order follows the hashes of the strings, which differ from process to
\* process, so every order is a possible outcome
ListsOfSet(S) == {l \in [1..Cardinality(S) -> S] : SetOfList(l) = S}

\* `x in a_list`
InList(x, l) == \E i \in 1..Len(l) : l[i] = x

\* a_list.remove(x) for an x that is in the list: the first occurrence goes
ListRemove(l, x) ==
    LET i == CHOOSE j \in 1..Len(l) : l[j] = x /\ \A k \in 1..(j - 1) : l[k] # x
    IN  SubSeq(l, 1, i - 1) \o SubSeq(l, i + 1, Len(l))

\* enable_category(category_id) on b: the Blocklist after it and the result
EnableCategoryResult(b, category_id) ==
    IF category_id \in PRESET_CATEGORIES
    THEN [blocklist |-> [b EXCEPT !.enabled_categories = @ \cup {category_id}],
          result |-> True]
    ELSE [blocklist |-> b, result |-> False]

\* disable_category(category_id)
DisableCategoryResult(b, category_id) ==
    IF category_id \in b.enabled_categories
    THEN [blocklist |-> [b EXCEPT !.enabled_categories = @ \ {category_id}],
          result |-> True]
    ELSE [blocklist |-> b, result |-> False]

\* an add_custom_pattern that appends without looking for the pattern
AddCustomPatternAllowsDuplicates(b, pattern) ==
    IF Strip(pattern) # <<>>
    THEN [blocklist |-> [b EXCEPT !.custom_patterns = Append(@, Strip(pattern))],
          result |-> True]
    ELSE [blocklist |-> b, result |-> False]

\* add_custom_pattern(pattern)
AddCustomPatternResult(b, pattern) ==
    LET stripped == Strip(pattern)
    IN  IF stripped # <<>> /\ ~InList(stripped, b.custom_patterns)
        THEN [blocklist |-> [b EXCEPT !.custom_patterns = Append(@, stripped)],
              result |-> True]
        ELSE [blocklist |-> b, result |-> False]

\* remove_custom_pattern(pattern)
RemoveCustomPatternResult(b, pattern) ==
    IF InList(pattern, b.custom_patterns)
    THEN [blocklist |-> [b EXCEPT !.custom_patterns = ListRemove(@, pattern)],
          result |-> True]
    ELSE [blocklist |-> b, result |-> False]

\* to_dict(), with list(self.enabled_categories) giving the list categories
ToDict(b, categories) ==
    [enabled_categories |-> categories, custom_patterns |-> b.custom_patterns]

\* the dicts to_dict() can return
ToDicts(b) == {ToDict(b, l) : l \in ListsOfSet(b.enabled_categories)}

\* Blocklist.from_dict(d): a key that is missing reads as []
FromDict(d) ==
    Blocklist(SetOfList(IF "enabled_categories" \in DOMAIN d
                        THEN d.enabled_categories ELSE <<>>),
              IF "custom_patterns" \in DOMAIN d THEN d.custom_patterns ELSE <<>>)

\* json.dump of a dict of lists of strings; a category id is one atom
SettingsDump(d) ==
    JObj(<< << <<"enabled_categories">>,
              JList([i \in 1..Len(d.enabled_categories) |->
                        JStr(<<d.enabled_categories[i]>>)])>>,
            << <<"custom_patterns">>,
              JList([i \in 1..Len(d.custom_patterns) |-> JStr(d.custom_patterns[i])])>> >>)

\* json.load of a text that SettingsDump wrote
SettingsParse(doc) ==
    LET cats == MemberOf(doc, <<"enabled_categories">>).l
        pats == MemberOf(doc, <<"custom_patterns">>).l
    IN  [enabled_categories |-> [i \in 1..Len(cats) |-> cats[i].s[1]],
         custom_patterns |-> [i \in 1..Len(pats) |-> pats[i].s]]

\* the settings file: its JSON text, or what a write that failed left of it
SettingsJson(doc) == [kind |-> "json", doc |-> doc]
SettingsTruncated == [kind |-> "truncated", doc |-> None]

\* load() in a manager that holds no Blocklist: the Blocklist it constructs
LoadBlocklist(f) ==
    IF f.kind = "json" THEN FromDict(SettingsParse(f.doc))
    ELSE Blocklist({}, <<>>)

\* the ways save() ends: written, mkdir raised, json.dump raised after open
BlocklistOutcomes == {"ok", "mkdir_fail", "write_fail"}

\* the file save() leaves when it writes the dict d over the file f
SaveSettings(d, f, outcome) ==
    CASE outcome = "ok" -> SettingsJson(SettingsDump(d))
      [] outcome = "write_fail" -> SettingsTruncated
      [] OTHER -> f

\* the blocklist argument of save(): None, or a Blocklist the caller made
SaveArguments == {None, Blocklist({}, <<>>), Blocklist({"gaming"}, << <<"y">> >>)}

\* the category ids and the patterns passed by callers
CategoryIds == {"social_media", "video_streaming", "gaming", "no_such_category"}
Patterns == {<<>>, <<" ">>, <<"x">>, <<" ", "x">>, <<"x", " ">>, <<"y">>}

\* the last call: its name, arguments and result, and for add_custom_pattern
\* the custom_patterns before it
BlocklistOp(name, result, args) ==
    [name |-> name, result |-> result, args |-> args,
     before |-> IF name = "add_custom_pattern" /\ blocklist # None
                THEN blocklist.custom_patterns ELSE <<>>]

\* BlocklistManager(settings_path): a new manager, which holds no Blocklist
NewManager ==
    /\ blocklist # None
    /\ blocklist' = None
    /\ op' = BlocklistOp("BlocklistManager", None, <<>>)
    /\ UNCHANGED <<alive, data, cache, file, keysFile, saved, edits, threads,
                   instance, objects, calls, resets, settings>>

\* load()
Load ==
    /\ blocklist' = IF blocklist # None THEN blocklist ELSE LoadBlocklist(settings)
    /\ op' = BlocklistOp("load", None, <<>>)
    /\ UNCHANGED <<alive, data, cache, file, keysFile, saved, edits, threads,
                   instance, objects, calls, resets, settings>>

\* save(blocklist): a Blocklist given replaces the one held; False when none
\* is held or the write raised
Save(arg, outcome) ==
    /\ blocklist' = IF arg # None THEN arg ELSE blocklist
    /\ IF blocklist' = None
       THEN /\ outcome = "ok"
            /\ op' = BlocklistOp("save", False, <<>>)
            /\ UNCHANGED settings
       ELSE /\ settings' \in {SaveSettings(d, settings, outcome) : d \in ToDicts(blocklist')}
            /\ op' = BlocklistOp("save", IF outcome = "ok" THEN True ELSE False, <<>>)
    /\ UNCHANGED <<alive, data, cache, file, keysFile, saved, edits, threads,
                   instance, objects, calls, resets>>

EnableCategory(category_id) ==
    /\ blocklist # None
    /\ LET r == EnableCategoryResult(blocklist, category_id)
       IN  /\ blocklist' = r.blocklist
           /\ op' = BlocklistOp("enable_category", r.result, <<category_id>>)
    /\ UNCHANGED <<alive, data, cache, file, keysFile, saved, edits, threads,
                   instance, objects, calls, resets, settings>>

DisableCategory(category_id) ==
    /\ blocklist # None
    /\ LET r == DisableCategoryResult(blocklist, category_id)
       IN  /\ blocklist' = r.blocklist
           /\ op' = BlocklistOp("disable_category", r.result, <<category_id>>)
    /\ UNCHANGED <<alive, data, cache, file, keysFile, saved, edits, threads,
                   instance, objects, calls, resets, settings>>

AddCustomPattern(pattern) ==
    /\ blocklist # None
    /\ Len(blocklist.custom_patterns) < MaxPatterns
    /\ LET r == AddCustomPatternResult(blocklist, pattern)
       IN  /\ blocklist' = r.blocklist
           /\ op' = BlocklistOp("add_custom_pattern", r.result, pattern)
    /\ UNCHANGED <<alive, data, cache, file, keysFile, saved, edits, threads,
                   instance, objects, calls, resets, settings>>

RemoveCustomPattern(pattern) ==
    /\ blocklist # None
    /\ LET r == RemoveCustomPatternResult(blocklist, pattern)
       IN  /\ blocklist' = r.blocklist
           /\ op' = BlocklistOp("remove_custom_pattern", r.result, pattern)
    /\ UNCHANGED <<alive, data, cache, file, keysFile, saved, edits, threads,
                   instance, objects, calls, resets, settings>>

\* BlocklistManager(settings_path) where no settings file exists
InitBlocklist ==
    /\ alive = FALSE
    /\ file = FileMissing
    /\ data = DefaultData
    /\ cache = CacheNone
    /\ keysFile = KeysModern
    /\ saved = <<>>
    /\ edits = 0
    /\ threads = [t \in Threads |-> Idle]
    /\ instance = None
    /\ objects = <<>>
    /\ calls = [t \in Threads |-> IdleCall]
    /\ resets = 0
    /\ blocklist = None
    /\ settings = SettingsMissing
    /\ op = [name |-> "BlocklistManager", result |-> None, args |-> <<>>, before |-> <<>>]

NextBlocklist ==
    \/ NewManager
    \/ Load
    \/ \E arg \in SaveArguments, o \in BlocklistOutcomes : Save(arg, o)
    \/ \E c \in CategoryIds : EnableCategory(c)
    \/ \E c \in CategoryIds : DisableCategory(c)
    \/ \E p \in Patterns : AddCustomPattern(p)
    \/ \E p \in Patterns : RemoveCustomPattern(p)

SpecBlocklist == InitBlocklist /\ [][NextBlocklist]_vars

----------------------------------------------------------------------------
(* Vocabulary of the claims *)

Fields == DOMAIN DefaultData

\* licensed = false and every field other than checksum null
IsDefaultRecord(d) ==
    /\ DOMAIN d = Fields
    /\ \A k \in Fields \ {"checksum"} : d[k] = DefaultData[k]

IsSet(v) == v.t = "str" /\ v.s # <<>>

\* is_licensed() of an engine holding the record d is True
Licensed(d) == IsLicensedResult(d) = True

\* a new LicenseManager has just loaded a file that was saved and then edited
LoadedAfterSave == alive /\ op.name = "construct" /\ file.kind = "text" /\ saved # <<>>

\* new is old with the value of one member other than checksum changed
SingleFieldChanged(old, new) ==
    /\ Len(new) = Len(old)
    /\ \E i \in 1..Len(old) :
          /\ old[i][1] # "checksum"
          /\ new[i][1] = old[i][1]
          /\ new[i][2] # old[i][2]
          /\ JsonParse(new[i][2]).ok
          /\ \A j \in 1..Len(old) : j # i => new[j] = old[j]

\* the record of the text new is not the record of the text old
RecordDiffers(old, new) == ~JsonWellFormed(new) \/ JsonLoad(new) # JsonLoad(old)

\* the checksum member of old stands in new as it was written
ChecksumKept(old, new) ==
    \E i \in 1..Len(old), j \in 1..Len(new) : old[i][1] = "checksum" /\ new[j] = old[i]

\* new holds a non-empty checksum that is not the checksum of its other fields
ChecksumStale(new) ==
    /\ JsonWellFormed(new)
    /\ Truthy(Get(JsonLoad(new), "checksum"))
    /\ Get(JsonLoad(new), "checksum") # JStr(CalculateChecksum(JsonLoad(new)))

----------------------------------------------------------------------------
(* Claims checked under SpecStore *)

\* C1: after a save, changing the value of one persisted field other than
\* checksum and loading the file gives the default record, not the edited one.
C1_TamperDetected ==
    (LoadedAfterSave /\ SingleFieldChanged(saved, file.text)) => data = DefaultData

\* a revoked record edited to licensed = true was loaded as the default record
C1_Witness ==
    /\ LoadedAfterSave
    /\ SingleFieldChanged(saved, file.text)
    /\ JsonLoad(saved)["licensed"] = False
    /\ JsonLoad(file.text)["licensed"] = True
    /\ data = DefaultData

\* C2 as stated: every edit that makes the file's record differ from the saved
\* one, removing or nulling the checksum included, makes the next load return
\* the default record.
C2_AnyEditInvalidates ==
    (LoadedAfterSave /\ RecordDiffers(saved, file.text)) => data = DefaultData

\* C2 as amended: an edit that makes the record differ and leaves a non-empty
\* checksum that is not the checksum of the edited fields, as every edit that
\* leaves the saved checksum in place does, makes the next load return the
\* default record.
C2_EditUnderChecksumInvalidates ==
    (/\ LoadedAfterSave
     /\ RecordDiffers(saved, file.text)
     /\ ChecksumKept(saved, file.text) \/ ChecksumStale(file.text))
    => data = DefaultData

\* a field was added to a saved licensed record, the checksum left in place,
\* and the load gave the default record
C2_Witness ==
    /\ LoadedAfterSave
    /\ ChecksumKept(saved, file.text)
    /\ JsonWellFormed(file.text)
    /\ "extra" \in DOMAIN JsonLoad(file.text)
    /\ JsonLoad(saved)["licensed"] = True
    /\ data = DefaultData

\* a new LicenseManager has just loaded a file that holds an object text
LoadedObject ==
    alive /\ op.name = "construct" /\ file.kind = "text" /\ JsonWellFormed(file.text)

\* C14: a parseable record with no checksum field (a checksum that is null or
\* empty counts as none) is loaded exactly as stored; a record with a checksum
\* is loaded as stored only if the checksum is the one recomputed over its
\* other fields, and as the default record otherwise.
C14_LegacyAccepted ==
    LoadedObject =>
        LET stored == JsonLoad(file.text)
        IN  /\ ~Truthy(Get(stored, "checksum")) => data = stored
            /\ Truthy(Get(stored, "checksum")) =>
                  /\ data = stored <=> stored["checksum"] = JStr(CalculateChecksum(stored))
                  /\ data # stored => data = DefaultData

\* a saved licensed record whose checksum member was removed has been loaded
\* as it stands, still licensed
C14_Witness ==
    /\ LoadedObject
    /\ saved # <<>>
    /\ "checksum" \notin DOMAIN JsonLoad(file.text)
    /\ DOMAIN JsonLoad(file.text) = Fields \ {"checksum"}
    /\ data = JsonLoad(file.text)
    /\ Licensed(data)

\* what is_licensed(), get_license_type() and get_license_info() report
Reports(d) ==
    [is_licensed |-> IsLicensedResult(d), get_license_type |-> Get(d, "license_type"),
     get_license_info |-> GetLicenseInfo(d)]

C23_Mirror ==
    alive =>
        /\ op.name \in Mutations /\ op.result # False =>
              /\ file.kind = "text"
              /\ JsonWellFormed(file.text)
              /\ JsonLoad(file.text) = data
              /\ IsSet(data["checksum"])
        /\ ~LoadRaises(file)
        /\ Reports(LoadData(file)) = Reports(data)

C23_NoWriteOnRefusal ==
    (op'.name = "activate_with_key" /\ op'.result = False) => (file' = file /\ data' = data)

\* C23: with every write succeeding and nobody editing the file while an engine
\* runs, after each activation and each revoke the file holds the record in
\* memory, checksum included, a refused activate_with_key writes nothing, and
\* at every moment a new LicenseManager over the file would report the same
\* is_licensed(), get_license_type() and get_license_info() as the engine.
C23_DiskMirrorsMemory == []C23_Mirror /\ [][C23_NoWriteOnRefusal]_vars

\* a licensed engine has refused a key; a new engine over the file would report
\* the same promo license
C23_Witness ==
    /\ alive
    /\ op.name = "activate_with_key"
    /\ op.result = False
    /\ Licensed(data)
    /\ file.kind = "text"
    /\ Reports(LoadData(file)) = Reports(data)
    /\ GetLicenseInfo(data).type = JStr(LICENSE_TYPE_PROMO)

\* the license file holds nothing _load_data accepts as a record
NoAcceptableRecord(f) ==
    \/ f.kind # "text"
    \/ ~JsonWellFormed(f.text)
    \/ ~VerifyChecksum(JsonLoad(f.text))

\* C15 as stated: constructing a LicenseManager completes without an exception
\* whatever the license file holds, with the default record whenever the
\* content is not an acceptable record.
C15_LoadNeverRaises ==
    op.name = "construct" =>
        /\ op.result # Raised
        /\ alive
        /\ NoAcceptableRecord(file) => data = DefaultData

LicenseTypes == {JStr(LICENSE_TYPE_STRIPE), JStr(LICENSE_TYPE_KEY), JStr(LICENSE_TYPE_PROMO)}

\* C18 as stated: whatever the license file held at construction and whatever
\* operations followed, a record with licensed = true has one of the three
\* license types and activated_at set.
C18_LicensedRecordComplete ==
    (alive /\ Licensed(data)) =>
        /\ Get(data, "license_type") \in LicenseTypes
        /\ IsSet(Get(data, "activated_at"))

\* C19 as stated: whatever the license file held at construction and whatever
\* operations followed, a record with licensed = false has license_type,
\* stripe_session_id, stripe_payment_intent, license_key, activated_at and
\* email null.
C19_UnlicensedRecordBlank ==
    (alive /\ Get(data, "licensed") = False) =>
        \A k \in Fields \ {"licensed", "checksum"} : Get(data, k) = JNull

----------------------------------------------------------------------------
(* Claims checked under Spec *)

C3_Step ==
    /\ (alive' /\ op'.name = "construct" /\ file'.kind = "missing") => ~Licensed(data')
    /\ (alive /\ alive') =>
          /\ (op'.name \in Activations /\ op'.result = True) => Licensed(data')
          /\ op'.name = "revoke_license" => ~Licensed(data')
          /\ (Licensed(data) /\ op'.name # "revoke_license") => Licensed(data')

\* C3: an engine over a fresh store is unlicensed; once an activation has
\* returned True the engine is licensed and stays so through every later
\* operation until revoke_license, after which it is unlicensed; only
\* revoke_license takes an engine from licensed to unlicensed.
C3_ActivationStateMachine ==
    /\ file.kind = "missing" => ~Licensed(data)
    /\ [][C3_Step]_vars

\* a licensed engine has just refused an invalid key and is still licensed
C3_Witness ==
    /\ alive
    /\ op.name = "activate_with_key"
    /\ op.result = False
    /\ Licensed(data)

\* C8: activate_with_stripe returns True from every prior state and leaves a
\* complete new record in memory: licensed, stripe_payment, the session id,
\* payment intent and email passed, license_key null, activated_at set;
\* whatever the save did.
C8_StripeReplacesRecord ==
    (alive /\ op.name = "activate_with_stripe") =>
        /\ op.result = True
        /\ DOMAIN data = Fields
        /\ data["licensed"] = True
        /\ data["license_type"] = JStr(LICENSE_TYPE_STRIPE)
        /\ data["stripe_session_id"] = op.args[1]
        /\ data["stripe_payment_intent"] = op.args[2]
        /\ data["email"] = op.args[3]
        /\ data["license_key"] = JNull
        /\ IsSet(data["activated_at"])

\* a stripe activation whose save failed on open: the file still holds the key
\* license that was there before, the record in memory holds no key
C8_Witness ==
    /\ alive
    /\ op.name = "activate_with_stripe"
    /\ op.save = "open_fail"
    /\ file.kind = "text"
    /\ JsonLoad(file.text)["license_type"] = JStr(LICENSE_TYPE_KEY)
    /\ data["license_key"] = JNull
    /\ data["stripe_session_id"] = JStr(<<"cs_test_123">>)

\* C9: activate_with_promo returns True from every prior state and for every
\* promo code, and leaves a licensed record of type promo_code whose
\* license_key is the promo code as passed, with stripe_payment_intent null
\* and activated_at set, in place of the previous record.
C9_PromoReplacesRecord ==
    (alive /\ op.name = "activate_with_promo") =>
        /\ op.result = True
        /\ DOMAIN data = Fields
        /\ data["licensed"] = True
        /\ data["license_type"] = JStr(LICENSE_TYPE_PROMO)
        /\ data["stripe_session_id"] = op.args[1]
        /\ data["license_key"] = op.args[2]
        /\ data["email"] = op.args[3]
        /\ data["stripe_payment_intent"] = JNull
        /\ IsSet(data["activated_at"])

\* a promo activation with the code " a" over a stripe license with a payment
\* intent (still in the file, the save having failed on open)
C9_Witness ==
    /\ alive
    /\ op.name = "activate_with_promo"
    /\ op.save = "open_fail"
    /\ file.kind = "text"
    /\ JsonLoad(file.text)["stripe_payment_intent"] = JStr(<<"pi_1">>)
    /\ data["license_key"] = JStr(<<" ", "a">>)
    /\ data["stripe_payment_intent"] = JNull

\* C10: revoke_license returns without error from every prior state and leaves
\* the default record in memory (checksum aside); a second revoke in a row
\* persists the same file as the first.
C10_RevokeIdempotent ==
    [][(alive' /\ op'.name = "revoke_license") =>
          /\ op'.result = None
          /\ IsDefaultRecord(data')
          /\ (op'.again = "ok" /\ op'.save = "ok") => file' = file]_vars

\* the second of two revokes in a row, both persisted
C10_Witness ==
    /\ alive
    /\ op.name = "revoke_license"
    /\ op.again = "ok"
    /\ op.save = "ok"
    /\ IsDefaultRecord(data)
    /\ file = FileText(saved)

\* what the operation returns when its save has succeeded
ResultAfterSave(name) == IF name = "revoke_license" THEN None ELSE True

\* C11 as stated: when the file write of activate_with_stripe, activate_with_key,
\* activate_with_promo or revoke_license fails, _save_data returns an error
\* outcome and the caller's result differs from the one it gets when the save
\* succeeded, while the record in memory holds the new state.
C11_SaveFailureReported ==
    (alive /\ op.name \in Mutations /\ op.save \in SaveOutcomes \ {"ok"}) =>
        /\ SaveDataReturn(op.save) # SaveDataReturn("ok")
        /\ op.result # ResultAfterSave(op.name)
        /\ IF op.name = "revoke_license" THEN IsDefaultRecord(data) ELSE Licensed(data)

\* C12 as stated: no operation raises, and once revoke_license has returned the
\* engine is unlicensed, in that process and in every later process over the
\* same file, until an activation returns True, whatever the saves did.
C12_RevokeSurvivesFailures ==
    /\ op.result # Raised
    /\ (alive /\ op.revoked) => ~Licensed(data)

\* a new LicenseManager has just loaded the file as the last save wrote it
LoadedSavedFile == alive /\ op.name = "construct" /\ saved # <<>> /\ file = FileText(saved)

\* C13: after an activation whose save succeeded, the file holds a checksum
\* that load accepts and loading it gives the licensed record in memory, field
\* for field; a new LicenseManager over the file as saved holds that record.
C13_RoundTrip ==
    /\ (alive /\ op.name \in Activations /\ op.result = True /\ op.save = "ok") =>
          /\ Licensed(data)
          /\ file.kind = "text"
          /\ JsonWellFormed(file.text)
          /\ Get(JsonLoad(file.text), "checksum") = JStr(CalculateChecksum(data))
          /\ VerifyChecksum(JsonLoad(file.text))
          /\ LoadData(file) = data
    /\ LoadedSavedFile =>
          /\ data = JsonLoad(saved)
          /\ DOMAIN data = Fields
          /\ data["checksum"] = JStr(CalculateChecksum(data))

\* a new LicenseManager holds the promo record, its code " a" and its email,
\* that an earlier one saved
C13_Witness ==
    /\ LoadedSavedFile
    /\ Licensed(data)
    /\ data["license_type"] = JStr(LICENSE_TYPE_PROMO)
    /\ data["license_key"] = JStr(<<" ", "a">>)
    /\ data["email"] = JStr(<<"u@example.com">>)
    /\ data["stripe_payment_intent"] = JNull

\* C16 as stated: after an activation or a revoke, whatever its save did,
\* loading the license file gives the record it gave before the operation or
\* the complete record the operation wrote, never anything else.
C16_SaveAtomic ==
    [][(alive /\ op'.name \in Mutations /\ op'.save # "none") =>
          LoadData(file') \in {LoadData(file), data'}]_vars

\* C20 as stated: in the record an activation leaves, stripe_session_id and
\* stripe_payment_intent are non-null only when license_type is
\* stripe_payment, and license_key is non-null only when license_type is
\* license_key or promo_code.
C20_FieldExclusivity ==
    (alive /\ op.name \in Activations /\ op.result = True) =>
        /\ (data["stripe_session_id"] # JNull \/ data["stripe_payment_intent"] # JNull)
              => data["license_type"] = JStr(LICENSE_TYPE_STRIPE)
        /\ data["license_key"] # JNull
              => data["license_type"] \in {JStr(LICENSE_TYPE_KEY), JStr(LICENSE_TYPE_PROMO)}

----------------------------------------------------------------------------
(* Claims checked under SpecKeys *)

\* the list of a key-list file in the modern or the legacy shape
KeyList(kf) ==
    IF kf.kind = "json" /\ kf.doc.t = "obj" /\ HasMember(kf.doc, KeysName)
       /\ MemberOf(kf.doc, KeysName).t = "list"
    THEN MemberOf(kf.doc, KeysName).l
    ELSE IF kf.kind = "json" /\ kf.doc.t = "list" THEN kf.doc.l ELSE <<>>

\* no key-list file, or one that holds a list of strings in either shape
HoldsKeyList(kf) ==
    \/ kf.kind \in {"unconfigured", "missing"}
    \/ /\ kf.kind = "json"
       /\ \/ kf.doc.t = "list"
          \/ /\ kf.doc.t = "obj"
             /\ HasMember(kf.doc, KeysName)
             /\ MemberOf(kf.doc, KeysName).t = "list"
       /\ \A i \in 1..Len(KeyList(kf)) : KeyList(kf)[i].t = "str"

\* strip+upper of the entries of the key-list file
NormalizedEntries(kf) == {Normalize(KeyList(kf)[i].s) : i \in 1..Len(KeyList(kf))}

EmptyKeySet(kf) == HoldsKeyList(kf) /\ KeyList(kf) = <<>>

\* C4 as stated: activate_with_key with a key whose normalized form is not in
\* the engine's valid key set returns False without raising and leaves the
\* record in memory and the license file as they were.
C4_InvalidKeyChangesNothing ==
    [][(alive /\ op'.name = "activate_with_key" /\ op'.nkey \notin cache'.keys) =>
          /\ op'.result = False
          /\ data' = data
          /\ file' = file]_vars

\* C5: over a key-list file in the modern or the legacy shape (or none),
\* activate_with_key returns True exactly when strip+upper of the key is
\* strip+upper of an entry of the file, and then the record is a licensed
\* license_key record holding the normalized key, activated_at set, session
\* id, payment intent and email null.
C5_KeyActivation ==
    (alive /\ op.name = "activate_with_key" /\ HoldsKeyList(keysFile)) =>
        /\ op.result \in {True, False}
        /\ op.result = True <=> op.nkey \in NormalizedEntries(keysFile)
        /\ op.result = True =>
              /\ DOMAIN data = Fields
              /\ data["licensed"] = True
              /\ data["license_type"] = JStr(LICENSE_TYPE_KEY)
              /\ data["license_key"] = JStr(op.nkey)
              /\ IsSet(data["activated_at"])
              /\ data["stripe_session_id"] = JNull
              /\ data["stripe_payment_intent"] = JNull
              /\ data["email"] = JNull

\* the key of the modern file {"keys": [" a"]} was accepted and stored as "A"
C5_Witness ==
    /\ alive
    /\ op.name = "activate_with_key"
    /\ op.result = True
    /\ keysFile = KeysModern
    /\ data["license_key"] = JStr(<<"A">>)

\* C6: with no key-list file configured, a missing one, or one holding an empty
\* list, every activate_with_key call, first or later, returns False and
\* leaves the record as it was.
C6_FailClosed ==
    [][(alive /\ op'.name = "activate_with_key" /\ EmptyKeySet(keysFile)) =>
          /\ op'.result = False
          /\ data' = data]_vars

\* a repeated key attempt on a licensed engine whose key-list file is missing
C6_Witness ==
    /\ alive
    /\ op.name = "activate_with_key"
    /\ op.again = "none"
    /\ op.result = False
    /\ keysFile = KeysMissing
    /\ cache = CacheOf({})
    /\ Licensed(data)

\* two characters that are the same, or the two cases of one letter
SameLetter(c, d) ==
    \/ c = d
    \/ {c, d} \in {{"a", "A"}, {"b", "B"}}

\* s without its leading and trailing spaces
Trimmed(s) ==
    LET inner == {i \in 1..Len(s) : s[i] # " "}
    IN  IF inner = {} THEN <<>>
        ELSE SubSeq(s, CHOOSE i \in inner : \A j \in inner : i <= j,
                       CHOOSE i \in inner : \A j \in inner : j <= i)

\* k1 and k2 differ only in letter case and in leading and trailing whitespace
CaseAndPaddingVariants(k1, k2) ==
    LET t1 == Trimmed(k1)
        t2 == Trimmed(k2)
    IN  /\ Len(t1) = Len(t2)
        /\ \A i \in 1..Len(t1) : SameLetter(t1[i], t2[i])

\* the variant of k without padding and with every letter a capital: two keys
\* are variants of each other exactly when they have the same one
Representative(k) ==
    LET t == Trimmed(k)
    IN  [i \in 1..Len(t) |-> CASE t[i] = "a" -> "A" [] t[i] = "b" -> "B" [] OTHER -> t[i]]

\* the value a caller gets from a validation outcome
ResultOf(v) ==
    CASE v.result = "True" -> True
      [] v.result = "False" -> False
      [] OTHER -> Raised

\* C21: whatever key activate_with_key has handled, the representative of its
\* variants gets, from the same prior state and key set, the same result and
\* the same key set, and on success the record stored is the one stored for
\* the representative, activated_at (and the checksum over it) aside. Hence
\* any two keys that differ only in letter case and leading or trailing
\* whitespace behave alike.
C21_KeyVariantsBehaveAlike ==
    [][(alive /\ op'.name = "activate_with_key") =>
          LET k == Representative(op'.nkey)
              v == ValidateLicenseKeyResult(cache, keysFile, k)
          IN  /\ CaseAndPaddingVariants(k, op'.nkey)
              /\ ResultOf(v) = op'.result
              /\ v.cache = cache'
              /\ op'.result = True =>
                    /\ data'["license_key"] = JStr(Normalize(k))
                    /\ data' = Put(KeyRecord(Normalize(k), data'["activated_at"].s),
                                   "checksum", data'["checksum"])]_vars

\* a key of the legacy list ["aA", "A"] was accepted and stored as "AA", the
\* form shared by its variants "aa", "aA", "Aa" and "AA"
C21_Witness ==
    /\ alive
    /\ op.name = "activate_with_key"
    /\ op.result = True
    /\ keysFile = KeysJson(JList(<<JStr(<<"a", "A">>), JStr(<<"A">>)>>))
    /\ data["license_key"] = JStr(<<"A", "A">>)
    /\ \A k \in {<<"a", "a">>, <<"a", "A">>, <<"A", "a">>, <<"A", "A">>} :
          k \in KeyStrings /\ Representative(k) = Representative(op.nkey)

\* C7 as stated: over a key-list file that is unreadable, unparseable or of a
\* malformed shape, key loading does not raise, the key set is empty, and every
\* validate_license_key and activate_with_key call returns False.
\* C24: in an engine constructed when no license file exists, whenever the
\* record's license_type is license_key, the stored license_key is a string
\* without leading or trailing whitespace and without lower-case letters, and
\* it is in the key set the engine has cached.
C24_StoredKeyNormalizedAndValid ==
    (alive /\ Get(data, "license_type") = JStr(LICENSE_TYPE_KEY)) =>
        /\ data["license_key"].t = "str"
        /\ data["license_key"].s = Representative(data["license_key"].s)
        /\ cache.loaded
        /\ data["license_key"].s \in cache.keys

\* " a" was activated with and its save failed; the record in memory holds "A",
\* and a later validation of another key has left record and key set alone
C24_Witness ==
    /\ alive
    /\ op.name = "validate_license_key"
    /\ op.result = False
    /\ file = FileMissing
    /\ Get(data, "license_type") = JStr(LICENSE_TYPE_KEY)
    /\ data["license_key"] = JStr(<<"A">>)
    /\ <<"A">> \in cache.keys

C7_MalformedKeysLoadZero ==
    (/\ alive
     /\ op.name \in {"validate_license_key", "activate_with_key"}
     /\ keysFile \in MalformedKeyFiles)
    => (op.result = False /\ cache = CacheOf({}))

----------------------------------------------------------------------------
(* Claims checked under SpecThreads *)

BothReturned == \A t \in Threads : threads[t].pc = "returned"

\* the record a call leaves when it runs alone: its fields and their checksum
CompleteRecord(rec) == Put(rec, "checksum", JStr(CalculateChecksum(rec)))

\* C17 as stated: once two concurrent activation or revoke calls on one engine
\* have both returned, the record in memory and the record in the file are
\* each the complete record of one of the two calls, and the file's checksum
\* is one that load accepts.
C17_LastWriterWins ==
    (BothReturned /\ \A t \in Threads : threads[t].result \notin {False, Raised}) =>
        LET complete == {CompleteRecord(threads[t].rec) : t \in Threads}
        IN  /\ data \in complete
            /\ file.kind = "text"
            /\ JsonWellFormed(file.text)
            /\ JsonLoad(file.text) \in complete
            /\ LoadData(file) = JsonLoad(file.text)

----------------------------------------------------------------------------
(* Claims checked under SpecCache *)

KeyOperations == {"validate_license_key", "activate_with_key"}

\* C22: an engine reads the key-list file on its first validate_license_key
\* or activate_with_key call and at no other time; once it has, its key set
\* stays what that call made it, whatever happens to the file, and every
\* later validation is answered from that set.
C22_KeysCachedForLifetime ==
    [][/\ (alive /\ alive' /\ op'.name \notin KeyOperations) => cache' = cache
       /\ (alive /\ ~cache.loaded /\ op'.name \in KeyOperations) =>
             /\ cache'.loaded
             /\ HoldsKeyList(keysFile) => cache'.keys = NormalizedEntries(keysFile)
       /\ (alive /\ cache.loaded /\ op'.name \in KeyOperations) =>
             /\ cache' = cache
             /\ op'.result = IF op'.nkey \in cache.keys THEN True ELSE False]_vars

\* the key "A" read from {"keys": [" a"]} is still accepted, in a repeated
\* validation, after the key-list file has been removed
C22_Witness ==
    /\ alive
    /\ op.name = "validate_license_key"
    /\ op.again = "none"
    /\ op.result = True
    /\ op.nkey = <<"A">>
    /\ cache = CacheOf({<<"A">>})
    /\ keysFile = KeysMissing

----------------------------------------------------------------------------
(* Claims checked under SpecAccessor *)

\* the objects constructed after e calls of reset_license_manager and before
\* the next one
ConstructedIn(e) == {i \in 1..Len(objects) : objects[i].epoch = e}

\* thread t has returned from a get_license_manager call that began after the
\* last reset_license_manager
ReturnedSinceReset(t) == calls[t].pc = "returned" /\ calls[t].epoch = resets

\* C25 as stated: between two reset_license_manager calls at most one
\* LicenseManager is constructed, every get_license_manager call made since
\* the last reset has returned that one object, whichever threads made the
\* calls, and that object was constructed after the reset; it does not hold.
C25_SingleInstance ==
    /\ \A e \in 0..resets : Cardinality(ConstructedIn(e)) <= 1
    /\ \A t \in Threads :
          ReturnedSinceReset(t) =>
              /\ calls[t].ret \notin {None, Raised}
              /\ objects[calls[t].ret.id].epoch = resets
              /\ \A u \in Threads : ReturnedSinceReset(u) => calls[u].ret = calls[t].ret
----------------------------------------------------------------------------
(* Claims checked under SpecBlocklist *)

SameSettings(b1, b2) ==
    /\ b1.enabled_categories = b2.enabled_categories
    /\ b1.custom_patterns = b2.custom_patterns

\* C26 as stated: every Blocklist a manager holds equals, in
\* enabled_categories and custom_patterns, the Blocklist from_dict makes of
\* its to_dict, the one with every category disabled included, and whenever
\* the settings file is the one save writes for it, load in a new manager
\* gives those same settings; it does not hold.
C26_SettingsRoundTrip ==
    blocklist # None =>
        /\ \A d \in ToDicts(blocklist) : SameSettings(FromDict(d), blocklist)
        /\ (\E d \in ToDicts(blocklist) : settings = SaveSettings(d, settings, "ok")) =>
              SameSettings(LoadBlocklist(settings), blocklist)

\* C27 as stated: when add_custom_pattern(p) has returned True and the next
\* call is remove_custom_pattern(p) with the same p, it returns True and
\* custom_patterns is what it was before the add; it does not hold.
C27_RemoveUndoesAdd ==
    [][(/\ op.name = "add_custom_pattern"
        /\ op.result = True
        /\ op'.name = "remove_custom_pattern"
        /\ op'.args = op.args)
       => (/\ op'.result = True
           /\ blocklist'.custom_patterns = op.before)]_vars

NoDuplicates(l) == \A i, j \in 1..Len(l) : l[i] = l[j] => i = j

C28_PatternsClean ==
    blocklist # None =>
        /\ NoDuplicates(blocklist.custom_patterns)
        /\ \A i \in 1..Len(blocklist.custom_patterns) :
              /\ blocklist.custom_patterns[i] # <<>>
              /\ blocklist.custom_patterns[i] = Trimmed(blocklist.custom_patterns[i])

C28_AddReturns ==
    (blocklist # None /\ op'.name = "add_custom_pattern") =>
        LET p == Trimmed(op'.args)
            fresh == p # <<>> /\ ~InList(p, blocklist.custom_patterns)
        IN  /\ op'.result = IF fresh THEN True ELSE False
            /\ ~fresh => blocklist'.custom_patterns = blocklist.custom_patterns

\* C28: custom_patterns never holds an entry twice, an empty entry or one with
\* leading or trailing whitespace, and add_custom_pattern returns True exactly
\* when the pattern without its padding is non-empty and not in the list, and
\* otherwise returns False and leaves the list as it was.
C28_CustomPatternsWellFormed == []C28_PatternsClean /\ [][C28_AddReturns]_vars

\* " x" was refused because "x" is in the list, after "y"
C28_Witness ==
    /\ blocklist # None
    /\ op.name = "add_custom_pattern"
    /\ op.args = <<" ", "x">>
    /\ op.result = False
    /\ blocklist.custom_patterns = <<"y", "x">>
====
